---- MODULE Spec2Model ----
(***************************************************************************)
(* Model of src/Ising.py: the class IsingModel, a 2D Ising lattice with    *)
(* periodic boundaries updated by single-spin-flip Metropolis trials.      *)
(*                                                                         *)
(* Numbers.  dim, contact_energy and temperature are integers here.  The   *)
(* acceptance draw u = rng.rand() lies in [0,1); the model draws it as     *)
(* u = exp(-q) for a positive integer q, so that the comparison of line    *)
(* 119, u < exp(-dE/T), is an exact comparison of integers:                *)
(*     T > 0 :  exp(-q) < exp(-dE/T)  <=>  q*T > dE                        *)
(*     T < 0 :  exp(-q) < exp(-dE/T)  <=>  q*T < dE                        *)
(*     T = 0 :  numpy evaluates -dE/0 to -inf (dE > 0) or nan (dE = 0),    *)
(*              exp of it to 0 or nan, and u < 0, u < nan are both False.  *)
(* File output and plotting (save_*, plot_state) do not touch the engine's *)
(* state and are left out; the constructor's flags keep their defaults.    *)
(***************************************************************************)
EXTENDS Integers, FiniteSets, TLC

\* Largest lattice side length drawn for dim.
MaxN == 3
\* Largest temperature drawn for temperature.
MaxT == 2
\* Largest number of sweeps one engine performs in a behaviour.
MaxSweeps == 1

VARIABLES
    N,          \* self.N
    T,          \* self.T
    J,          \* self.J
    mt,         \* self.mt
    state,      \* self.state: [Sites(N) -> {-1, 1}]
    mcs,        \* self.mcs
    raised,     \* exception raised by the constructor, or "none"
    pc,         \* "idle", "do_mcs" (direct call in flight), "run" (sweep of run() in flight), "finished" (run() returned)
    i,          \* outer loop variable of _do_monte_carlo_step
    j,          \* inner loop variable of _do_monte_carlo_step
    t,          \* loop variable of run()
    ret,        \* value returned by the last completed call
    draws,      \* site draws (x, y) made by the sweep in flight or last completed
    outcome,    \* branch taken by the last trial of the sweep in flight or last completed
    sweeps,     \* completed calls of do_mcs since construction
    runSweeps   \* completed calls of do_mcs made by the current or last run()

vars == <<N, T, J, mt, state, mcs, raised, pc, i, j, t, ret, draws, outcome, sweeps, runSweeps>>

\* Constructor arguments enumerated.
Dims == -1..MaxN
Temps == -1..MaxT
Js == {-1, 1}
MaxSimTimes == 1..(MaxSweeps + 1)
\* Acceptance draws u = exp(-q).
Qs == {1, 4, 9}

Sites(n) == (0..(n - 1)) \X (0..(n - 1))

None == <<"None", 0>>

Abs(k) == IF k < 0 THEN -k ELSE k

\* rng.randint(2, size=(N, N)): every array of 0/1 values.
randint2(n) == [Sites(n) -> {0, 1}]

\* Variant of init_lattice that drops the offset: 2 * rng.randint(2, size=(N, N)).
init_lattice_no_offset(n) == {[s \in Sites(n) |-> 2 * r[s]] : r \in randint2(n)}

\* init_lattice: 2 * rng.randint(2, size=(N, N)) - 1, for each outcome of randint.
init_lattice(n) == {[s \in Sites(n) |-> 2 * r[s] - 1] : r \in randint2(n)}

\* The four index pairs read on line 113 for site (x, y).
sweep_neighbours(x, y, n) ==
    << <<(x + 1) % n, y>>, <<(x - 1) % n, y>>, <<x, (y + 1) % n>>, <<x, (y - 1) % n>> >>

\* Variant of energy_neighbours whose last index repeats (y + 1) % N.
energy_neighbours_repeat(x, y, n) ==
    << <<(x + 1) % n, y>>, <<(x - 1) % n, y>>, <<x, (y + 1) % n>>, <<x, (y + 1) % n>> >>

\* The four index pairs read on line 145 for site (x, y).
energy_neighbours(x, y, n) ==
    << <<(x + 1) % n, y>>, <<(x - 1) % n, y>>, <<x, (y + 1) % n>>, <<x, (y - 1) % n>> >>

\* sum_neig_spins over a tuple of four index pairs.
sum_neig_spins(stt, nb) == stt[nb[1]] + stt[nb[2]] + stt[nb[3]] + stt[nb[4]]

\* dE of line 115.
delta_E(stt, x, y, n, cJ) == 2 * cJ * stt[<<x, y>>] * sum_neig_spins(stt, sweep_neighbours(x, y, n))

\* Variant of accept that compares with <= in place of <.
accept_or_equal(dE, q, temp) ==
    IF temp > 0 THEN q * temp >= dE
    ELSE IF temp < 0 THEN q * temp <= dE
    ELSE FALSE

\* rng.rand() < np.exp(-dE / self.T) with rng.rand() = exp(-q).
accept(dE, q, temp) ==
    IF temp > 0 THEN q * temp > dE
    ELSE IF temp < 0 THEN q * temp < dE
    ELSE FALSE

\* self.state[x, y] *= -1
flip(stt, x, y) == [stt EXCEPT ![<<x, y>>] = @ * (-1)]

\* Branch of lines 117-120 taken with energy change dE and draw q.
trial_branch(dE, q, temp) ==
    IF dE < 0 THEN "lower"
    ELSE IF accept(dE, q, temp) THEN "accepted"
    ELSE "rejected"

\* Lattice after the body of the loops, lines 109-120, at (x, y) with draw q.
trial_result(stt, x, y, q, n, cJ, temp) ==
    LET b == trial_branch(delta_E(stt, x, y, n, cJ), q, temp)
    IN  CASE b = "lower" -> flip(stt, x, y)
          [] b = "accepted" -> flip(stt, x, y)
          [] OTHER -> stt

\* Variant of next_index whose inner loop is range(N - 1).
next_index_short(ci, cj, n) ==
    IF cj + 1 < n - 1 THEN <<ci, cj + 1>> ELSE <<ci + 1, 0>>

\* The loop variables (i, j) of the nested for loops of lines 107-108 after one more
\* pass of the body; i = N when both loops are exhausted.
next_index(ci, cj, n) ==
    IF cj + 1 < n THEN <<ci, cj + 1>> ELSE <<ci + 1, 0>>

\* Sum of f over the finite set S.
RECURSIVE SumOver(_, _)
SumOver(f, S) ==
    IF S = {} THEN 0
    ELSE LET s == CHOOSE s \in S : TRUE IN f[s] + SumOver(f, S \ {s})

\* Variant of get_state_magnetization that sums magnitudes: np.sum(np.abs(self.state)).
get_state_magnetization_abs(stt, n) == SumOver([s \in Sites(n) |-> Abs(stt[s])], Sites(n))

\* np.sum(self.state)
get_state_magnetization(stt, n) == SumOver(stt, Sites(n))

\* The accumulator e after the loops of lines 142-147.
energy_accumulator(stt, n) ==
    SumOver([s \in Sites(n) |->
                2 * stt[s] * sum_neig_spins(stt, energy_neighbours(s[1], s[2], n))],
            Sites(n))

\* e *= self.J; return e / 4.  The product is a multiple of 4 on every lattice,
\* so the true division is exact.
get_state_energy(stt, n, cJ) == (energy_accumulator(stt, n) * cJ) \div 4

\* State after __init__(dim, contact_energy, temperature, max_sim_time).
\* numpy raises ValueError for a negative dimension in init_lattice.
Init ==
    \E dim \in Dims, temperature \in Temps, contact_energy \in Js, max_sim_time \in MaxSimTimes :
        /\ N = dim
        /\ T = temperature
        /\ J = contact_energy
        /\ mt = max_sim_time
        /\ IF dim < 0
           THEN /\ raised = "ValueError"
                /\ state = <<>>
           ELSE /\ raised = "none"
                /\ state \in init_lattice(dim)
        /\ mcs = 0
        /\ pc = "idle"
        /\ i = 0
        /\ j = 0
        /\ t = 0
        /\ ret = None
        /\ draws = 0
        /\ outcome = "none"
        /\ sweeps = 0
        /\ runSweeps = 0

Constructed == raised = "none"

InSweep == pc \in {"do_mcs", "run"}

\* A caller invokes do_mcs(): control enters the loops of _do_monte_carlo_step.
do_mcs_call ==
    /\ Constructed
    /\ pc \in {"idle", "finished"}
    /\ sweeps < MaxSweeps
    /\ pc' = "do_mcs"
    /\ i' = 0
    /\ j' = 0
    /\ draws' = 0
    /\ outcome' = "none"
    /\ ret' = None
    /\ UNCHANGED <<N, T, J, mt, state, mcs, raised, t, sweeps, runSweeps>>

\* One pass through the body of the nested loops, lines 109-120.
trial ==
    /\ InSweep
    /\ i < N
    /\ \E x \in 0..(N - 1), y \in 0..(N - 1), q \in Qs :
        /\ state' = trial_result(state, x, y, q, N, J, T)
        /\ outcome' = trial_branch(delta_E(state, x, y, N, J), q, T)
    /\ draws' = draws + 1
    /\ i' = next_index(i, j, N)[1]
    /\ j' = next_index(i, j, N)[2]
    /\ UNCHANGED <<N, T, J, mt, mcs, raised, pc, t, ret, sweeps, runSweeps>>

\* The loops are exhausted: a direct call of do_mcs() returns None.
do_mcs_return ==
    /\ pc = "do_mcs"
    /\ i >= N
    /\ pc' = "idle"
    /\ ret' = None
    /\ sweeps' = sweeps + 1
    /\ UNCHANGED <<N, T, J, mt, state, mcs, raised, i, j, t, draws, outcome, runSweeps>>

\* run() is called: for t in range(1, self.mt), first iteration up to the call of do_mcs.
run_call ==
    /\ Constructed
    /\ pc \in {"idle", "finished"}
    /\ sweeps + (mt - 1) <= MaxSweeps
    /\ runSweeps' = 0
    /\ ret' = None
    /\ IF 1 < mt
       THEN /\ t' = 1
            /\ mcs' = 1
            /\ pc' = "run"
            /\ i' = 0
            /\ j' = 0
            /\ draws' = 0
            /\ outcome' = "none"
       ELSE /\ pc' = "finished"
            /\ UNCHANGED <<t, mcs, i, j, draws, outcome>>
    /\ UNCHANGED <<N, T, J, mt, state, raised, sweeps>>

\* do_mcs() returns inside run(); the loop goes on to its next iteration or run() returns.
run_iterate ==
    /\ pc = "run"
    /\ i >= N
    /\ sweeps' = sweeps + 1
    /\ runSweeps' = runSweeps + 1
    /\ IF t + 1 < mt
       THEN /\ t' = t + 1
            /\ mcs' = t + 1
            /\ pc' = "run"
            /\ i' = 0
            /\ j' = 0
            /\ draws' = 0
            /\ outcome' = "none"
       ELSE /\ pc' = "finished"
            /\ UNCHANGED <<t, mcs, i, j, draws, outcome>>
    /\ UNCHANGED <<N, T, J, mt, state, raised, ret>>

\* A caller invokes get_state_energy().
get_state_energy_call ==
    /\ Constructed
    /\ pc \in {"idle", "finished"}
    /\ ret' = <<"energy", get_state_energy(state, N, J)>>
    /\ UNCHANGED <<N, T, J, mt, state, mcs, raised, pc, i, j, t, draws, outcome, sweeps, runSweeps>>

\* A caller invokes get_state_magnetization().
get_state_magnetization_call ==
    /\ Constructed
    /\ pc \in {"idle", "finished"}
    /\ ret' = <<"magnetization", get_state_magnetization(state, N)>>
    /\ UNCHANGED <<N, T, J, mt, state, mcs, raised, pc, i, j, t, draws, outcome, sweeps, runSweeps>>

Next ==
    \/ do_mcs_call
    \/ trial
    \/ do_mcs_return
    \/ run_call
    \/ run_iterate
    \/ get_state_energy_call
    \/ get_state_magnetization_call

Spec == Init /\ [][Next]_vars

----
\* Helpers of the properties.

AllPlus == \A s \in Sites(N) : state[s] = 1

\* Index after x on a ring of n sites, and index before x.
RingNext(x, n) == IF x = n - 1 THEN 0 ELSE x + 1
RingPrev(x, n) == IF x = 0 THEN n - 1 ELSE x - 1

\* The neighbour sum of site (x, y) read through the ring.
RingSum(stt, x, y, n) ==
    stt[<<RingNext(x, n), y>>] + stt[<<RingPrev(x, n), y>>]
        + stt[<<x, RingNext(y, n)>>] + stt[<<x, RingPrev(y, n)>>]

----
\* C1: on every constructed engine with N >= 1, in the initial lattice and in every
\* state reached by sweeps, the lattice is indexed by exactly the N x N sites and
\* every cell holds +1 or -1.
SpinDomainInvariant ==
    (Constructed /\ N >= 1) =>
        /\ DOMAIN state = Sites(N)
        /\ \A s \in Sites(N) : state[s] \in {-1, 1}

\* A run() on a 3 x 3 lattice has returned after one sweep whose last trial flipped a spin.
SpinDomainWitness ==
    /\ N = 3
    /\ pc = "finished"
    /\ runSweeps = 1
    /\ outcome = "accepted"

\* C2: on an engine with N >= 1 and T >= 1, whenever no sweep is in flight the elapsed
\* sweep count mcs equals the number of completed calls of do_mcs (it starts at 0 and
\* grows by 1 per completed call).
SweepCountTracksCalls ==
    (Constructed /\ N >= 1 /\ T >= 1 /\ ~InSweep) => mcs = sweeps

\* C3: on the all-+1 lattice of an engine with N >= 1, T >= 1 and J = 1 the energy
\* query returns -2 * N^2.
EnergyNormalization ==
    (N >= 1 /\ T >= 1 /\ J = 1 /\ AllPlus /\ ret[1] = "energy") => ret[2] = -2 * N * N

\* C4: at every site of a lattice of side >= 2 (T >= 1), the dE of a sweep trial equals the
\* energy query on the lattice with that spin negated minus the energy query on the
\* lattice as it is.
LocalDeltaIsEnergyChange ==
    (Constructed /\ N >= 2 /\ T >= 1) =>
        \A x \in 0..(N - 1), y \in 0..(N - 1) :
            delta_E(state, x, y, N, J)
                = get_state_energy(flip(state, x, y), N, J) - get_state_energy(state, N, J)

\* C5: a non-positive N or a temperature T <= 0 makes the constructor fail with an
\* error, so that no engine exists and no sweep is ever started or completed on it.
ConstructorValidation ==
    (N <= 0 \/ T <= 0) =>
        /\ ~Constructed
        /\ ~InSweep
        /\ sweeps = 0

\* C6: when run() has returned on an engine with N >= 1, T >= 1 and maximum sweep
\* count mt >= 1, the elapsed sweep count equals mt and run() has performed exactly mt sweeps.
RunReachesMaximum ==
    (pc = "finished" /\ N >= 1 /\ T >= 1 /\ mt >= 1) => (mcs = mt /\ runSweeps = mt)

\* The rule of C7 on the trials the current lattice admits.
MetropolisRuleAtState ==
    (Constructed /\ N >= 1 /\ T > 0) =>
        \A x \in 0..(N - 1), y \in 0..(N - 1), q \in Qs :
            LET s == state[<<x, y>>]
                dE == 2 * J * s * RingSum(state, x, y, N)
                negated == dE < 0 \/ (dE >= 0 /\ -q * T < -dE)
            IN  trial_result(state, x, y, q, N, J, T)
                    = [o \in Sites(N) |->
                         IF o = <<x, y>> THEN (IF negated THEN -s ELSE s) ELSE state[o]]

\* The rule of C7 on a step that is a trial.
MetropolisRuleAtStep ==
    (T > 0 /\ InSweep /\ draws' = draws + 1) =>
        LET changed == {c \in Sites(N) : state'[c] # state[c]}
        IN  /\ outcome' \in {"lower", "accepted", "rejected"}
            /\ outcome' = "rejected" => changed = {}
            /\ outcome' # "rejected" =>
                /\ Cardinality(changed) = 1
                /\ \A c \in changed : state'[c] = -state[c]

\* C7: on an engine with T > 0, a trial at any site (x, y) with any draw u = exp(-q)
\* negates the spin at (x, y) when dE = 2*J*s*Sigma < 0, otherwise negates it exactly
\* when u < exp(-dE/T) (that is -q*T < -dE) and leaves it alone when the draw rejects;
\* no other cell changes.  In every step that is a trial, a rejected trial leaves the
\* lattice as it was and any other trial changes exactly one cell, by negation.
MetropolisAcceptanceRule == []MetropolisRuleAtState /\ [][MetropolisRuleAtStep]_vars

\* The scenario N = 2, J = 1, T = 1: a sweep has completed, its last trial was rejected
\* and the lattice is all +1.
MetropolisWitness ==
    /\ N = 2 /\ J = 1 /\ T = 1
    /\ pc = "idle"
    /\ sweeps = 1
    /\ outcome = "rejected"
    /\ AllPlus

\* The draw count of C8 in a state.
SweepDrawCount ==
    (Constructed /\ N >= 1) =>
        /\ InSweep => (draws = i * N + j /\ draws <= N * N /\ (i < N \/ draws = N * N))
        /\ (~InSweep /\ sweeps >= 1) => draws = N * N

\* The frame of C8 on a step.
SweepFrame == N' = N /\ J' = J /\ T' = T /\ (InSweep /\ state' # state => draws' = draws + 1)

\* C8: a sweep makes exactly N*N site draws: while it is in flight the draw count is
\* i*N + j <= N*N, and once a sweep has completed the count of the last one is N*N,
\* whatever the trials did; no step changes N, J or T, and the lattice changes only in
\* a step that makes a draw.
SweepCardinality == []SweepDrawCount /\ [][SweepFrame]_vars

\* A direct sweep of a 3 x 3 lattice has returned after 9 draws, the last of them an
\* unconditional flip.
SweepCardinalityWitness ==
    /\ N = 3
    /\ pc = "idle"
    /\ sweeps = 1
    /\ draws = 9
    /\ outcome = "lower"

\* C9: for N >= 1 and every site (x, y), the sweep trial and the energy query read the
\* same four neighbours: the ring successor and predecessor of x in column y and of y
\* in row x (index 0 is preceded by N-1, index N-1 followed by 0), all within 0..N-1.
PeriodicNeighbours ==
    (Constructed /\ N >= 1) =>
        \A x \in 0..(N - 1), y \in 0..(N - 1) :
            LET expected == << <<RingNext(x, N), y>>, <<RingPrev(x, N), y>>,
                               <<x, RingNext(y, N)>>, <<x, RingPrev(y, N)>> >>
            IN  /\ sweep_neighbours(x, y, N) = expected
                /\ energy_neighbours(x, y, N) = expected
                /\ \A k \in 1..4 : expected[k] \in Sites(N)

\* The energy of a 3 x 3 lattice has been queried after a sweep of it.
PeriodicNeighboursWitness ==
    /\ N = 3
    /\ sweeps = 1
    /\ ret[1] = "energy"

\* The values of C10 in a state.
QueryValues ==
    (Constructed /\ N >= 1) =>
        /\ Abs(get_state_magnetization(state, N)) <= N * N
        /\ ret[1] = "magnetization" =>
            ret[2] = Cardinality({s \in Sites(N) : state[s] = 1})
                        - Cardinality({s \in Sites(N) : state[s] = -1})
        /\ ret[1] = "energy" => ret[2] = get_state_energy(state, N, J)

\* The frame of C10 on a step that returns from a query.
QueryFrame ==
    ret'[1] \in {"energy", "magnetization"} =>
        /\ UNCHANGED <<N, T, J, mt, state, mcs, sweeps>>
        /\ ret[1] = ret'[1] => ret' = ret

\* C10: a query changes none of lattice, N, J, T, mt and mcs, and a query that follows
\* a query of the same kind returns the same value; the magnetization returned is the
\* number of +1 cells minus the number of -1 cells, and its magnitude is at most N^2.
QueriesArePure == []QueryValues /\ [][QueryFrame]_vars

\* The magnetization has been queried after a sweep and is -N^2 on a lattice of side >= 2.
QueriesWitness ==
    /\ N >= 2
    /\ sweeps = 1
    /\ ret = <<"magnetization", -(N * N)>>

====
